---- MODULE Spec2Model ----
(***************************************************************************)
(* Model of the leveled logger (log.c by rxi, as adapted in cubana) and of *)
(* the error-code string table, both found in src/src/culibc.h.            *)
(*                                                                         *)
(* The logger is one process-wide struct L.  Every operation runs to       *)
(* completion on the calling thread, so each operation is one action.      *)
(* What an operation writes is recorded as the list of emissions of the    *)
(* most recent call (variable last), each emission being the sequence of   *)
(* stream operations the sink performed.                                   *)
(***************************************************************************)
EXTENDS Integers, Sequences, FiniteSets, TLC

VARIABLES L, msvc, last, setup

vars == <<L, msvc, last, setup>>

(***************************************************************************)
(* Bounds of the model                                                     *)
(***************************************************************************)
\* pointers handed to the logger as user data (void *udata, File *file) are
\* the handles 0 (NULL) .. MaxUdata
MaxUdata == 1

(***************************************************************************)
(* Program constants and static tables                                     *)
(***************************************************************************)
MAX_CALLBACKS == 2

level_strings == <<"TRACE", "DEBUG", "INFO", "WARN", "ERROR", "FATAL">>

error_code_strings ==
  <<"CU_SUCCESS", "CU_FAILURE", "CU_LOG_FILE_ERROR", "CU_FILE_CLOSE_ERROR">>

\* severity levels are the indices of level_strings, 0 = TRACE .. 5 = FATAL
Levels == 0 .. (Len(level_strings) - 1)

\* the thresholds callers register sinks with: the lowest level, a middle
\* one and the highest
Thresholds == {0, 3, 5}

\* error codes that have an entry in error_code_strings
Codes == 0 .. (Len(error_code_strings) - 1)

\* the null function pointer
NULL == "NULL"

\* the stream the console sink writes to; user data handles are >= 0
stderr == 0 - 1

\* functions a caller of log_add_callback can pass
UserFns == {"user_fn"}

Udatas == 0 .. MaxUdata

\* File objects a caller passes to log_add_fp: valid (non-null) handles
Files == 1 .. MaxUdata

\* typedef struct { fn; udata; level } Callback
Callback(fn, udata, level) == [fn |-> fn, udata |-> udata, level |-> level]

(***************************************************************************)
(* Stream operations performed by the sinks.  text is the sequence of      *)
(* formatted fields, in the order the format string lays them out.         *)
(***************************************************************************)
Write(dest, text) == [op |-> "write", dest |-> dest, text |-> text]
Flush(dest) == [op |-> "flush", dest |-> dest, text |-> <<>>]

\* fprintf / vfprintf on a FILE*: buffered by the stream until flushed
fprintf(stream, text) == <<Write(stream, text)>>

\* fflush on a FILE*
fflush(stream) == <<Flush(stream)>>

\* FileWriteStrf / FileWriteStrfv of ../file.h: the text reaches the file
\* with no buffering of its own (write-through)
FileWriteStrf(file, text) == <<Write(file, text), Flush(file)>>

\* OutputDebugString: one unbuffered message to the debugger
OutputDebugString(text) == <<[op |-> "debug", dest |-> 0, text |-> text]>>

\* log_Event, as log_log builds it: time is 0 until init_event sets it
NewEvent(level) == [level |-> level, udata |-> 0, time |-> 0]

init_event(ev, udata) ==
  [ev EXCEPT !.time = IF ev.time = 0 THEN 1 ELSE ev.time, !.udata = udata]

\* stdout_callback with the final fflush left out
stdout_callback_noflush(ev) ==
  fprintf(ev.udata, <<"%H:%M:%S", level_strings[ev.level + 1], "file", "line">>)
    \o fprintf(ev.udata, <<"msg">>)
    \o fprintf(ev.udata, <<"\n">>)

stdout_callback(ev) ==
  fprintf(ev.udata, <<"%H:%M:%S", level_strings[ev.level + 1], "file", "line">>)
    \o fprintf(ev.udata, <<"msg">>)
    \o fprintf(ev.udata, <<"\n">>)
    \o fflush(ev.udata)

file_callback(ev) ==
  FileWriteStrf(ev.udata,
                <<"%Y-%m-%d %H:%M:%S", level_strings[ev.level + 1], "file", "line">>)
    \o FileWriteStrf(ev.udata, <<"msg">>)
    \o FileWriteStrf(ev.udata, <<"\n">>)

msvc_debug_callback(ev) ==
  OutputDebugString(<<"%H:%M:%S", level_strings[ev.level + 1], "file", "line",
                      "msg", "\n">>)

\* a callback supplied by the caller: opaque, it is only known to be called
user_callback(fn, ev) == <<[op |-> "call", dest |-> ev.udata, text |-> <<fn>>]>>

\* cb->fn(&ev)
CallFn(fn, ev) ==
  CASE fn = "stdout_callback" -> stdout_callback(ev)
    [] fn = "file_callback" -> file_callback(ev)
    [] fn = "msvc_debug_callback" -> msvc_debug_callback(ev)
    [] OTHER -> user_callback(fn, ev)

\* one invocation of a sink: sink 0 is the console, sink i the callback slot i
Emission(sink, fn, ev) ==
  [sink |-> sink, fn |-> fn, udata |-> ev.udata, events |-> CallFn(fn, ev)]

(***************************************************************************)
(* The logger operations, as functions of the logger state                 *)
(***************************************************************************)
\* log_set_level that also clears the quiet flag
log_set_level_unquiet(Lst, level) ==
  [Lst EXCEPT !.level = level, !.quiet = FALSE]

log_set_level(Lst, level) == [Lst EXCEPT !.level = level]

log_set_quiet(Lst, enable) == [Lst EXCEPT !.quiet = enable]

\* the loop of log_add_callback from slot i on (slots are 1 .. MAX_CALLBACKS)
RECURSIVE add_loop(_, _, _, _, _)
add_loop(Lst, i, fn, udata, level) ==
  IF i > MAX_CALLBACKS
  THEN [L |-> Lst, ret |-> 0 - 1]
  ELSE IF Lst.callbacks[i].fn = NULL
       THEN [L |-> [Lst EXCEPT !.callbacks[i] = Callback(fn, udata, level)],
             ret |-> 0]
       ELSE add_loop(Lst, i + 1, fn, udata, level)

\* log_add_callback that reuses the last slot when none is free
log_add_callback_overwrite(Lst, fn, udata, level) ==
  IF add_loop(Lst, 1, fn, udata, level).ret = 0
  THEN add_loop(Lst, 1, fn, udata, level)
  ELSE [L |-> [Lst EXCEPT !.callbacks[MAX_CALLBACKS] = Callback(fn, udata, level)],
        ret |-> 0]

\* log_add_callback that scans the slots from the highest index down
log_add_callback_downward(Lst, fn, udata, level) ==
  LET free == {i \in 1 .. MAX_CALLBACKS : Lst.callbacks[i].fn = NULL}
      top == CHOOSE i \in free : \A j \in free : j <= i
  IN IF free = {}
     THEN [L |-> Lst, ret |-> 0 - 1]
     ELSE [L |-> [Lst EXCEPT !.callbacks[top] = Callback(fn, udata, level)],
           ret |-> 0]

log_add_callback(Lst, fn, udata, level) == add_loop(Lst, 1, fn, udata, level)

log_add_fp(Lst, file, level) ==
  log_add_callback(Lst, "file_callback", file, level)

\* log_init that registers the debugger sink on every build
log_init_always(Lst, isMsvc) ==
  log_add_callback(Lst, "msvc_debug_callback", 0, Lst.level)

\* _MSC_VER selects the first return
log_init(Lst, isMsvc) ==
  IF isMsvc
  THEN log_add_callback(Lst, "msvc_debug_callback", 0, Lst.level)
  ELSE [L |-> Lst, ret |-> 0]

\* the console condition with > in place of >=
console_eligible_strict(Lst, level) == ~Lst.quiet /\ level > Lst.level

\* the console condition without the quiet flag
console_eligible_noquiet(Lst, level) == level >= Lst.level

\* the condition under which log_log uses the console sink
console_eligible(Lst, level) == ~Lst.quiet /\ level >= Lst.level

\* the callback condition with > in place of >=
cb_eligible_strict(cb, level) == level > cb.level

\* the condition under which log_log invokes the callback cb
cb_eligible(cb, level) == level >= cb.level

\* the first block of log_log: the console sink, writing to stderr
console_sink(Lst, level, ev) ==
  IF console_eligible(Lst, level)
  THEN [ev |-> init_event(ev, stderr),
        out |-> <<Emission(0, "stdout_callback", init_event(ev, stderr))>>]
  ELSE [ev |-> ev, out |-> <<>>]

\* the loop of log_log leaving at the first callback whose threshold is
\* above the level (break in place of the skip)
RECURSIVE cb_loop_break(_, _, _, _)
cb_loop_break(Lst, i, level, ev) ==
  IF i <= MAX_CALLBACKS /\ Lst.callbacks[i].fn # NULL
       /\ level >= Lst.callbacks[i].level
  THEN <<Emission(i, Lst.callbacks[i].fn,
                  init_event(ev, Lst.callbacks[i].udata))>>
         \o cb_loop_break(Lst, i + 1, level,
                          init_event(ev, Lst.callbacks[i].udata))
  ELSE <<>>

\* the loop of log_log over the callbacks from slot i on
RECURSIVE cb_loop(_, _, _, _)
cb_loop(Lst, i, level, ev) ==
  IF i <= MAX_CALLBACKS /\ Lst.callbacks[i].fn # NULL
  THEN IF cb_eligible(Lst.callbacks[i], level)
       THEN <<Emission(i, Lst.callbacks[i].fn,
                       init_event(ev, Lst.callbacks[i].udata))>>
              \o cb_loop(Lst, i + 1, level,
                         init_event(ev, Lst.callbacks[i].udata))
       ELSE cb_loop(Lst, i + 1, level, ev)
  ELSE <<>>

\* the emissions of one log_log call, in the order they happen
log_log(Lst, level) ==
  console_sink(Lst, level, NewEvent(level)).out
    \o cb_loop(Lst, 1, level, console_sink(Lst, level, NewEvent(level)).ev)

\* ErrorCodeToString over a table whose last two entries are the same
ErrorCodeToString_dup(error_code) ==
  error_code_strings[IF error_code = 3 THEN 3 ELSE error_code + 1]

ErrorCodeToString(error_code) == error_code_strings[error_code + 1]

(***************************************************************************)
(* State machine                                                           *)
(***************************************************************************)
\* the record of the most recent call: its name, its integer argument (the
\* level of a log_log call, the code of an ErrorCodeToString call), its return
\* value (ret for int, str for const char *) and the emissions it made
Call(op) == [op |-> op, arg |-> 0, ret |-> 0, str |-> "", out |-> <<>>]

\* setup tells how far the caller has configured the logger: "static" before
\* any call that can configure it, "inited" once log_init has been called and
\* nothing else, "configured" once a setter or a registration has been called

\* static storage is zero-initialised
Init ==
  /\ L = [udata |-> 0, level |-> 0, quiet |-> FALSE,
          callbacks |-> [i \in 1 .. MAX_CALLBACKS |-> Callback(NULL, 0, 0)]]
  /\ msvc \in BOOLEAN
  /\ last = Call("none")
  /\ setup = "static"

SetLevel(level) ==
  /\ L' = log_set_level(L, level)
  /\ last' = Call("log_set_level")
  /\ setup' = "configured"
  /\ UNCHANGED msvc

SetQuiet(enable) ==
  /\ L' = log_set_quiet(L, enable)
  /\ last' = Call("log_set_quiet")
  /\ setup' = "configured"
  /\ UNCHANGED msvc

AddCallback(fn, udata, level) ==
  /\ LET r == log_add_callback(L, fn, udata, level)
     IN /\ L' = r.L
        /\ last' = [Call("log_add_callback") EXCEPT !.ret = r.ret]
  /\ setup' = "configured"
  /\ UNCHANGED msvc

AddFp(file, level) ==
  /\ LET r == log_add_fp(L, file, level)
     IN /\ L' = r.L
        /\ last' = [Call("log_add_fp") EXCEPT !.ret = r.ret]
  /\ setup' = "configured"
  /\ UNCHANGED msvc

LogInit ==
  /\ LET r == log_init(L, msvc)
     IN /\ L' = r.L
        /\ last' = [Call("log_init") EXCEPT !.ret = r.ret]
  /\ setup' = IF setup = "static" THEN "inited" ELSE setup
  /\ UNCHANGED msvc

Log(level) ==
  /\ last' = [Call("log_log") EXCEPT !.arg = level, !.out = log_log(L, level)]
  /\ UNCHANGED <<L, msvc, setup>>

\* callers pass a code of the enumeration; the table has no bounds check
CodeToString(error_code) ==
  /\ last' = [Call("ErrorCodeToString") EXCEPT
                !.arg = error_code, !.str = ErrorCodeToString(error_code)]
  /\ UNCHANGED <<L, msvc, setup>>

Next ==
  \/ \E level \in Levels : SetLevel(level)
  \/ \E enable \in BOOLEAN : SetQuiet(enable)
  \/ \E fn \in UserFns \cup {NULL}, udata \in Udatas, level \in Thresholds :
       AddCallback(fn, udata, level)
  \/ \E file \in Files, level \in Thresholds : AddFp(file, level)
  \/ LogInit
  \/ \E level \in Levels : Log(level)
  \/ \E error_code \in Codes : CodeToString(error_code)

Spec == Init /\ [][Next]_vars

(***************************************************************************)
(* Vocabulary of the properties                                            *)
(***************************************************************************)
IsLog == last.op = "log_log"

\* the slots that hold a registered callback
Registered(Lst) == {i \in 1 .. 2 : Lst.callbacks[i].fn # NULL}

\* the sink numbers of the emissions of a call, in order
Sinks(out) == [k \in 1 .. Len(out) |-> out[k].sink]

\* sink i was invoked by the call
Invoked(out, i) == \E k \in 1 .. Len(out) : out[k].sink = i

\* some emission of the call wrote to dest
WritesTo(out, dest) ==
  \E k \in 1 .. Len(out) : \E e \in 1 .. Len(out[k].events) :
    out[k].events[e].op = "write" /\ out[k].events[e].dest = dest

\* C1: a log call at level l writes to the console sink exactly when quiet is
\* false and l >= the global level; so after set_level(L2) a call at a level
\* L1 < L2 writes nothing to the console, and a call at L2 itself is emitted.
C1_ConsoleThreshold ==
  IsLog =>
    /\ WritesTo(last.out, stderr) <=> (L.quiet = FALSE /\ last.arg >= L.level)
    /\ last.arg < L.level => ~WritesTo(last.out, stderr)
    /\ Invoked(last.out, 0) <=> WritesTo(last.out, stderr)

\* C1 witness: a call one level below a raised global level, not quiet, with
\* nothing on the console
C1_Witness ==
  /\ IsLog /\ ~L.quiet
  /\ L.level = 3 /\ last.arg = 2
  /\ ~WritesTo(last.out, stderr)

\* C2: while quiet is set no log call writes to the console sink, whatever
\* its level and the global level; registered callbacks are still invoked at
\* or above their own threshold.
C2_QuietSilencesConsole ==
  (IsLog /\ L.quiet) =>
    /\ ~WritesTo(last.out, stderr)
    /\ ~Invoked(last.out, 0)
    /\ \A i \in Registered(L) :
         last.arg >= L.callbacks[i].level => Invoked(last.out, i)

\* C2 witness: quiet, a call at or above the global level that would have been
\* printed, and a callback that was invoked by it
C2_Witness ==
  /\ IsLog /\ L.quiet
  /\ last.arg >= L.level
  /\ Registered(L) # {}
  /\ Invoked(last.out, 1)

\* C3: add_callback with a non-null function returns 0 exactly when fewer
\* than two callbacks are registered before the call and -1 when two are; at
\* most two callbacks are ever registered; a failed registration changes
\* nothing of the logger state.
C3_Capacity ==
  [][last'.op = "log_add_callback" =>
     \A fn \in UserFns : \A udata \in Udatas : \A level \in Thresholds :
       AddCallback(fn, udata, level) =>
         /\ last'.ret = 0 <=> Cardinality(Registered(L)) < 2
         /\ last'.ret = 0 - 1 <=> Cardinality(Registered(L)) = 2
         /\ last'.ret = 0 => Cardinality(Registered(L')) = Cardinality(Registered(L)) + 1
         /\ last'.ret = 0 - 1 => L' = L
         /\ Cardinality(Registered(L')) <= 2]_vars

\* C3 witness: a registration that failed with both slots taken
C3_Witness ==
  /\ last.op = "log_add_callback" /\ last.ret = 0 - 1
  /\ Cardinality(Registered(L)) = 2

\* C4: a registered callback with threshold t is invoked by a log call at
\* level l if and only if l >= t, whatever the global level, the quiet flag
\* and the other callback's threshold are; set_level does not change t.
C4_OwnThreshold ==
  /\ [](IsLog => \A i \in Registered(L) :
                   Invoked(last.out, i) <=> last.arg >= L.callbacks[i].level)
  /\ [][last'.op = "log_set_level" =>
          \A i \in 1 .. 2 : L'.callbacks[i].level = L.callbacks[i].level]_vars

\* C4 witness: a call below the global level and below the first callback's
\* threshold that still reaches the second callback
C4_Witness ==
  /\ IsLog /\ Registered(L) = {1, 2}
  /\ last.arg < L.level
  /\ last.arg < L.callbacks[1].level /\ last.arg >= L.callbacks[2].level
  /\ ~Invoked(last.out, 1) /\ Invoked(last.out, 2)

\* C5: ErrorCodeToString returns "CU_SUCCESS", "CU_FAILURE",
\* "CU_LOG_FILE_ERROR", "CU_FILE_CLOSE_ERROR" for the codes 0, 1, 2, 3; the
\* mapping is injective on 0..3, is the same in every logger state and leaves
\* the logger state unchanged.
C5_CodeStrings ==
  /\ [](last.op = "ErrorCodeToString" =>
          /\ last.arg = 0 => last.str = "CU_SUCCESS"
          /\ last.arg = 1 => last.str = "CU_FAILURE"
          /\ last.arg = 2 => last.str = "CU_LOG_FILE_ERROR"
          /\ last.arg = 3 => last.str = "CU_FILE_CLOSE_ERROR")
  /\ [](\A a \in 0 .. 3 : \A b \in 0 .. 3 :
          ErrorCodeToString(a) = ErrorCodeToString(b) => a = b)
  /\ [][last'.op = "ErrorCodeToString" => L' = L]_vars

\* C5 witness: the last code translated in a logger that has been configured
C5_Witness ==
  /\ last.op = "ErrorCodeToString" /\ last.arg = 3
  /\ last.str = "CU_FILE_CLOSE_ERROR"
  /\ L.quiet /\ Registered(L) # {}

\* the tag each level is printed with
LevelTag(level) ==
  CASE level = 0 -> "TRACE" [] level = 1 -> "DEBUG" [] level = 2 -> "INFO"
    [] level = 3 -> "WARN" [] level = 4 -> "ERROR" [] level = 5 -> "FATAL"

\* the write operations among the events of an emission, in order
Writes(events) == SelectSeq(events, LAMBDA e : e.op = "write")

\* an emission writes prefix, message and newline to its destination, in that
\* order, and ends with a flush of that destination right after the newline
LineThenFlush(em, level) ==
  /\ \A e \in 1 .. Len(em.events) : em.events[e].dest = em.udata
  /\ Len(Writes(em.events)) = 3
  /\ Len(Writes(em.events)[1].text) = 4
  /\ Writes(em.events)[1].text[1] \in {"%H:%M:%S", "%Y-%m-%d %H:%M:%S"}
  /\ Writes(em.events)[1].text[2] = LevelTag(level)
  /\ Writes(em.events)[1].text[3] = "file"
  /\ Writes(em.events)[1].text[4] = "line"
  /\ Writes(em.events)[2].text = <<"msg">>
  /\ Writes(em.events)[3].text = <<"\n">>
  /\ Len(em.events) >= 2
  /\ em.events[Len(em.events)].op = "flush"
  /\ em.events[Len(em.events) - 1] = Writes(em.events)[3]

ContiguousPrefix(Lst) ==
  \A i \in 1 .. 2 : \A j \in 1 .. 2 :
    (j < i /\ Lst.callbacks[i].fn # NULL) => Lst.callbacks[j].fn # NULL

\* C7: the callback list is append-only: a successful add_callback fills the
\* lowest-indexed empty slot with the triple it was given, the registered
\* entries always occupy a contiguous prefix of the two slots, and no
\* operation removes, moves or alters a registered triple.
C7_AppendOnly ==
  /\ []ContiguousPrefix(L)
  /\ [][\A i \in Registered(L) : L'.callbacks[i] = L.callbacks[i]]_vars
  /\ [][last'.op = "log_add_callback" =>
          \A fn \in UserFns : \A udata \in Udatas : \A level \in Thresholds :
            (AddCallback(fn, udata, level) /\ last'.ret = 0) =>
              \E i \in 1 .. 2 :
                /\ i \notin Registered(L)
                /\ \A j \in 1 .. 2 : j < i => j \in Registered(L)
                /\ L'.callbacks[i] = [fn |-> fn, udata |-> udata, level |-> level]
                /\ Registered(L') = Registered(L) \cup {i}]_vars

\* C7 witness: two sinks registered in order, the second one by the last call
C7_Witness ==
  /\ last.op = "log_add_callback" /\ last.ret = 0
  /\ L.callbacks[1].fn = "file_callback"
  /\ L.callbacks[2] = [fn |-> "user_fn", udata |-> 1, level |-> 5]

\* the sinks a log call at this level has to invoke
EligibleSinks(Lst, level) ==
  {i \in Registered(Lst) : level >= Lst.callbacks[i].level}
    \cup (IF Lst.quiet = FALSE /\ level >= Lst.level THEN {0} ELSE {})

\* C8: one log call invokes every eligible sink exactly once and no other
\* sink, the console first and then the callbacks in registration order; a
\* callback skipped for its threshold does not stop a later one.
C8_OnceInOrder ==
  IsLog =>
    /\ {last.out[k].sink : k \in 1 .. Len(last.out)} = EligibleSinks(L, last.arg)
    /\ \A k \in 1 .. Len(last.out) : \A m \in 1 .. Len(last.out) :
         k < m => last.out[k].sink < last.out[m].sink
    /\ \A k \in 1 .. Len(last.out) :
         /\ last.out[k].sink # 0 =>
              /\ last.out[k].fn = L.callbacks[last.out[k].sink].fn
              /\ last.out[k].udata = L.callbacks[last.out[k].sink].udata
         /\ last.out[k].sink = 0 =>
              last.out[k].fn = "stdout_callback" /\ last.out[k].udata = stderr

\* C8 witness: the console and the second callback are invoked, in that
\* order, and the first callback is skipped for its threshold
C8_Witness ==
  /\ IsLog /\ Registered(L) = {1, 2}
  /\ last.arg < L.callbacks[1].level
  /\ Sinks(last.out) = <<0, 2>>

\* C9: a log call leaves the logger state unchanged; set_level changes only
\* the global level; set_quiet changes only the quiet flag; add_callback and
\* add_file_sink change at most one callback slot and neither the global
\* level nor the quiet flag.
C9_Frame ==
  [][/\ last'.op = "log_log" => L' = L
     /\ last'.op = "log_set_level" =>
          /\ L'.quiet = L.quiet /\ L'.callbacks = L.callbacks
          /\ L'.udata = L.udata
     /\ last'.op = "log_set_quiet" =>
          /\ L'.level = L.level /\ L'.callbacks = L.callbacks
          /\ L'.udata = L.udata
     /\ last'.op \in {"log_add_callback", "log_add_fp"} =>
          /\ L'.level = L.level /\ L'.quiet = L.quiet /\ L'.udata = L.udata
          /\ Cardinality({i \in 1 .. 2 : L'.callbacks[i] # L.callbacks[i]}) <= 1]_vars

\* C9 witness: a registration made in a logger whose level and quiet flag
\* have been set before
C9_Witness ==
  /\ last.op = "log_add_fp" /\ last.ret = 0
  /\ L.level = 4 /\ L.quiet
  /\ Registered(L) = {1, 2}

\* C10: before any setter is called, also after log_init on a build without
\* _MSC_VER (which returns 0 and registers nothing), the global level is
\* TRACE, quiet is false and no callback is registered: a log call at any
\* level emits exactly once, on the console, and two add_callback calls can
\* still succeed.
C10_InitialState ==
  (setup \in {"static", "inited"} /\ ~msvc) =>
    /\ L.level = 0 /\ L.quiet = FALSE /\ Registered(L) = {}
    /\ last.op = "log_init" => last.ret = 0
    /\ IsLog => /\ Sinks(last.out) = <<0>>
                /\ WritesTo(last.out, stderr)
    /\ \A f1 \in UserFns : \A f2 \in UserFns :
         /\ log_add_callback(L, f1, 0, 0).ret = 0
         /\ log_add_callback(log_add_callback(L, f1, 0, 0).L, f2, 0, 0).ret = 0

\* C10 witness: a FATAL log call after log_init on a build without _MSC_VER
C10_Witness ==
  /\ setup = "inited" /\ ~msvc
  /\ IsLog /\ last.arg = 5
  /\ Sinks(last.out) = <<0>>

====
